---- MODULE Spec2Model ----
\* Supervisor of the GB28181 restreamer (src/src/main.py): startup sequencing in
\* main(), the liveness loop, cleanup() reached from signal_handler and from the
\* atexit hook, and the port probe find_available_port().
EXTENDS Integers, Sequences, FiniteSets, TLC

\* ---------------------------------------------------------------- bounds
\* Number of SIGINT/SIGTERM deliveries considered in one run.
MaxSignals == 2
\* find_available_port inputs explored by SpecPort: max_tries in 0..MaxTries,
\* occupied ports among the first MaxProbe candidate offsets.
MaxTries == 3
MaxProbe == 4
MaxCycles == 2       \* status cycles started by periodic_status_check
MaxStreams == 1      \* active streams of the SIP client
MaxSources == 2      \* entries of the rtsp_sources list
MaxBusy == 10        \* ports of the local SIP server's range held by other processes

\* ---------------------------------------------------------------- constants
\* find_available_port(start_port, max_tries=10)
DefaultMaxTries == 10
\* config.get("local_sip", {}).get("port", 5060)
DefaultLocalPort == 5060
\* base_port = 5070
SipBasePort == 5070
\* port = start_port + (i * 2)
PortStep == 2
\* the value standing for Python's None where a port is expected
None == -1
SleepSeconds == 60        \* main.py 222: range(60) one-second sleeps
ErrorSleepSeconds == 60   \* main.py 229: time.sleep(60)

VARIABLES
    config,        \* the configuration file: [exists, keys, sipKeys]
    rtspSources,   \* config.get("rtsp_sources", []) is non-empty
    localEnabled,  \* config["local_sip"]["enabled"]
    localPort,     \* config["local_sip"]["port"]
    sipLocalPort,  \* config["sip"]["local_port"], None when the key is absent
    occupied,      \* ports some other process already holds
    pc,            \* position of the main thread in main() / interpreter exit
    unit,          \* per unit: "none" (global is None), "constructed", "started"
    startSeq,      \* units in the order main() started them
    failure,       \* the startup call that raised, "none" otherwise
    running,       \* the module-level flag `running`
    sipThread,     \* sip_thread: "notstarted", "spawned", "running", "ended"
    sipProcess,    \* sip_client.process as the liveness loop last read it:
                   \* "unread", "none", "alive", "exited"
    sipStartCount, \* number of times sip_client.start() began executing
    statusThread,  \* status_thread started
    reachedRunning,\* the liveness loop was entered
    loopExit,      \* why the liveness loop was left
    artifact,      \* catalog_debug.xml written
    exitCode,      \* process exit status, None until decided
    cstack,        \* active cleanup() frames of the main thread, innermost last:
                   \* [inv, pos, caller, raised]
    invStatus,     \* per cleanup() invocation: "running", "complete", "aborted"
    stopLog,       \* stop()/shutdown() calls: [unit, inv]
    sigCount,      \* signals delivered so far
    cfgWrites,     \* configuration keys main() has assigned
    portCalls,     \* find_available_port calls made by main(), per server
    exitCodeLogged,\* "[MAIN] SIP process exit code" was logged (main.py 537)
    fp,            \* SpecPort: one find_available_port call [start, tries, occ, ret]
    st,            \* SpecStatus: the thread running periodic_status_check
    rs             \* SpecRtsp: one call of run_rtsp_sources

vars == <<config, rtspSources, localEnabled, localPort, sipLocalPort, occupied,
          pc, unit, startSeq, failure, running, sipThread, sipProcess,
          sipStartCount, statusThread, reachedRunning, loopExit, artifact,
          exitCode, cstack, invStatus, stopLog, sigCount, cfgWrites, portCalls,
          exitCodeLogged, fp, st, rs>>

\* ---------------------------------------------------------------- load_config
TopKeys == {"sip", "stream_directory"}
SipKeys == {"device_id", "username", "password", "server", "port"}

\* (variant: the sip block is not validated)
load_config_top_only(cfg) ==
    IF ~cfg.exists THEN "FileNotFoundError"
    ELSE IF \E k \in TopKeys : k \notin cfg.keys THEN "ValueError"
    ELSE "ok"

\* main.py load_config: the exception it raises, "ok" when it returns.
load_config(cfg) ==
    IF ~cfg.exists THEN "FileNotFoundError"
    ELSE IF \E k \in TopKeys : k \notin cfg.keys THEN "ValueError"
    ELSE IF \E k \in SipKeys : k \notin cfg.sipKeys THEN "ValueError"
    ELSE "ok"

\* ---------------------------------------------------------------- find_available_port
RECURSIVE probe(_, _, _, _)
\* the for loop of find_available_port from iteration i on
probe(start_port, max_tries, occ, i) ==
    IF i >= max_tries THEN None
    ELSE IF (start_port + i * PortStep) \notin occ
         THEN start_port + i * PortStep
         ELSE probe(start_port, max_tries, occ, i + 1)

\* (variant: the candidates are consecutive ports, start_port + i)
find_available_port_consecutive(start_port, max_tries, occ) ==
    IF \A i \in 0..(max_tries - 1) : (start_port + i) \in occ THEN None
    ELSE start_port + (CHOOSE i \in 0..(max_tries - 1) :
                          /\ (start_port + i) \notin occ
                          /\ \A j \in 0..(i - 1) : (start_port + j) \in occ)

find_available_port(start_port, max_tries, occ) == probe(start_port, max_tries, occ, 0)

\* Python truthiness of a port value (`if available_port:`)
Truthy(p) == p # None /\ p # 0

\* ---------------------------------------------------------------- main()
Units == {"streamer", "lsh", "local_sip", "sip_client"}

\* (variant: the SIP client port is resolved after the status thread started)
MainStepsLatePort ==
    <<"install", "load_config", "quick_scan", "streamer", "rtsp",
      "port_local", "sip_construct", "local_sip", "sip_thread", "recording",
      "status_thread", "port_sip", "loop_test">>

\* (variant: the SIP client port is resolved after the SIP client is constructed)
MainStepsPortAfterConstruct ==
    <<"install", "load_config", "quick_scan", "streamer", "rtsp",
      "port_local", "sip_construct", "port_sip", "local_sip", "sip_thread",
      "recording", "status_thread", "loop_test">>

\* Statements of main() in program order (pc values of the main thread).
MainSteps == <<"install", "load_config", "quick_scan", "streamer", "rtsp",
               "port_local", "port_sip", "sip_construct", "local_sip",
               "sip_thread", "recording", "status_thread", "loop_test">>

StepIndex(step) == CHOOSE i \in 1..Len(MainSteps) : MainSteps[i] = step

\* (variant: a failure of the media streamer is swallowed and startup goes on)
MainAfterStreamerOptional(step, raised) ==
    IF raised /\ step # "streamer" THEN "exiting" ELSE MainSteps[StepIndex(step) + 1]

\* Where main() continues after `step`: every statement sits in the try block
\* whose handlers (FileNotFoundError, ValueError, Exception) end in sys.exit(1).
MainAfter(step, raised) ==
    IF raised THEN "exiting" ELSE MainSteps[StepIndex(step) + 1]

\* Exit status after `step`: 1 when a handler of main() called sys.exit(1).
ExitAfter(step, raised, code) ==
    IF MainAfter(step, raised) = "exiting" THEN 1 ELSE code

\* State of a unit after "X = Ctor(config); X.start()" with outcome o:
\* the global is assigned only if the constructor returned.
UnitAfter(o) ==
    CASE o = "construct" -> "none"
      [] o = "start"     -> "constructed"
      [] o = "ok"        -> "started"

StartOutcomes == {"ok", "construct", "start"}

\* The call of main() that raised: <<unit, call>>.
NoFailure == <<"none", "ok">>
FailureOf(u, o, prev) == IF o = "ok" THEN prev ELSE <<u, o>>

\* Variables main() does not touch while it starts units.
EnvUnchanged == UNCHANGED <<config, rtspSources, occupied, fp, st, rs>>
ConfigUnchanged == UNCHANGED cfgWrites
TeardownUnchanged == UNCHANGED <<running, cstack, invStatus, stopLog, sigCount>>
SipUnchanged == UNCHANGED <<sipThread, sipProcess, sipStartCount>>
LoopUnchanged == UNCHANGED <<reachedRunning, loopExit, artifact, exitCodeLogged>>
PortsUnchanged == UNCHANGED <<localEnabled, localPort, sipLocalPort, portCalls>>

InMain(step) == pc = step /\ cstack = <<>>

\* main.py 382-387: signal.signal(SIGINT/SIGTERM, signal_handler); atexit.register(cleanup)
Install ==
    /\ InMain("install")
    /\ pc' = MainAfter("install", FALSE)
    /\ UNCHANGED <<unit, startSeq, failure, statusThread, exitCode>>
    /\ EnvUnchanged /\ ConfigUnchanged /\ TeardownUnchanged /\ SipUnchanged /\ LoopUnchanged
    /\ PortsUnchanged

\* main.py 389-394 with the handlers at 566-571
LoadConfig ==
    /\ InMain("load_config")
    /\ LET r == load_config(config) IN
        /\ pc' = MainAfter("load_config", r # "ok")
        /\ exitCode' = ExitAfter("load_config", r # "ok", exitCode)
        /\ failure' = FailureOf("config", r, failure)
    /\ UNCHANGED <<unit, startSeq, statusThread>>
    /\ EnvUnchanged /\ ConfigUnchanged /\ TeardownUnchanged /\ SipUnchanged /\ LoopUnchanged
    /\ PortsUnchanged

\* main.py 396-440: quick scan (its own try/except) and the pipeline defaults
QuickScan ==
    /\ InMain("quick_scan")
    /\ pc' = MainAfter("quick_scan", FALSE)
    /\ cfgWrites' = cfgWrites \cup {"sample_videos"}
                       \cup (IF "pipeline" \notin config.keys THEN {"pipeline"} ELSE {})
    /\ UNCHANGED <<unit, startSeq, failure, statusThread, exitCode>>
    /\ EnvUnchanged /\ TeardownUnchanged /\ SipUnchanged /\ LoopUnchanged
    /\ PortsUnchanged

\* A unit is constructed and started by main(); either call may raise.
StartUnit(step, u) ==
    \E o \in StartOutcomes :
        /\ unit' = [unit EXCEPT ![u] = UnitAfter(o)]
        /\ startSeq' = IF o = "ok" THEN Append(startSeq, u) ELSE startSeq
        /\ failure' = FailureOf(u, o, failure)
        /\ pc' = MainAfter(step, o # "ok")
        /\ exitCode' = ExitAfter(step, o # "ok", exitCode)

\* main.py 442-444: streamer = MediaStreamer(config); streamer.start_glib_loop()
StartStreamer ==
    /\ InMain("streamer")
    /\ StartUnit("streamer", "streamer")
    /\ UNCHANGED statusThread
    /\ EnvUnchanged /\ ConfigUnchanged /\ TeardownUnchanged /\ SipUnchanged /\ LoopUnchanged
    /\ PortsUnchanged

\* main.py 447 and run_rtsp_sources 116-175: with sources configured the live
\* stream handler is constructed and started; after that an entry of the list
\* can still make the call raise (handler at 171-172 with rtsp_url unassigned)
RunRtspSources ==
    /\ InMain("rtsp")
    /\ IF rtspSources
       THEN \/ StartUnit("rtsp", "lsh")
            \/ /\ unit' = [unit EXCEPT !["lsh"] = UnitAfter("ok")]
               /\ startSeq' = Append(startSeq, "lsh")
               /\ failure' = FailureOf("lsh", "entries", failure)
               /\ pc' = MainAfter("rtsp", TRUE)
               /\ exitCode' = ExitAfter("rtsp", TRUE, exitCode)
       ELSE /\ pc' = MainAfter("rtsp", FALSE)
            /\ UNCHANGED <<unit, startSeq, failure, exitCode>>
    /\ UNCHANGED statusThread
    /\ EnvUnchanged /\ ConfigUnchanged /\ TeardownUnchanged /\ SipUnchanged /\ LoopUnchanged
    /\ PortsUnchanged

\* main.py 449-461
ResolveLocalPort ==
    /\ InMain("port_local")
    /\ IF localEnabled
       THEN LET available_port == find_available_port(localPort, DefaultMaxTries, occupied) IN
            /\ portCalls' = [portCalls EXCEPT !["local_sip"] = @ + 1]
            /\ IF Truthy(available_port)
               THEN /\ localPort' = available_port
                    /\ cfgWrites' = IF available_port # localPort
                                    THEN cfgWrites \cup {"local_sip.port"}
                                    ELSE cfgWrites
                    /\ UNCHANGED localEnabled
               ELSE /\ localEnabled' = FALSE
                    /\ cfgWrites' = cfgWrites \cup {"local_sip.enabled"}
                    /\ UNCHANGED localPort
       ELSE UNCHANGED <<localEnabled, localPort, portCalls, cfgWrites>>
    /\ pc' = MainAfter("port_local", FALSE)
    /\ UNCHANGED <<sipLocalPort, unit, startSeq, failure, statusThread, exitCode>>
    /\ EnvUnchanged /\ TeardownUnchanged /\ SipUnchanged /\ LoopUnchanged

\* main.py 463-472
ResolveSipPort ==
    /\ InMain("port_sip")
    /\ IF sipLocalPort = None
       THEN LET sip_client_port == find_available_port(SipBasePort, DefaultMaxTries, occupied) IN
            /\ portCalls' = [portCalls EXCEPT !["sip_client"] = @ + 1]
            /\ sipLocalPort' = IF Truthy(sip_client_port) THEN sip_client_port ELSE None
            /\ cfgWrites' = IF Truthy(sip_client_port)
                            THEN cfgWrites \cup {"sip.local_port"}
                            ELSE cfgWrites
       ELSE UNCHANGED <<sipLocalPort, portCalls, cfgWrites>>
    /\ pc' = MainAfter("port_sip", FALSE)
    /\ UNCHANGED <<localEnabled, localPort, unit, startSeq, failure, statusThread, exitCode>>
    /\ EnvUnchanged /\ TeardownUnchanged /\ SipUnchanged /\ LoopUnchanged

\* main.py 474-484: sip_client = SIPClient(config)
ConstructSipClient ==
    /\ InMain("sip_construct")
    /\ \E raised \in BOOLEAN :
        /\ unit' = IF raised THEN unit ELSE [unit EXCEPT !["sip_client"] = "constructed"]
        /\ failure' = FailureOf("sip_client", IF raised THEN "construct" ELSE "ok", failure)
        /\ pc' = MainAfter("sip_construct", raised)
        /\ exitCode' = ExitAfter("sip_construct", raised, exitCode)
    /\ cfgWrites' = cfgWrites \cup {"streamer"}
    /\ UNCHANGED <<startSeq, statusThread>>
    /\ EnvUnchanged /\ TeardownUnchanged /\ SipUnchanged /\ LoopUnchanged
    /\ PortsUnchanged

\* main.py 486-490: local_sip_server = LocalSIPServer(config, sip_client); .start()
StartLocalSip ==
    /\ InMain("local_sip")
    /\ IF localEnabled
       THEN StartUnit("local_sip", "local_sip")
       ELSE /\ pc' = MainAfter("local_sip", FALSE)
            /\ UNCHANGED <<unit, startSeq, failure, exitCode>>
    /\ UNCHANGED statusThread
    /\ EnvUnchanged /\ ConfigUnchanged /\ TeardownUnchanged /\ SipUnchanged /\ LoopUnchanged
    /\ PortsUnchanged

\* main.py 492-495: threading.Thread(target=sip_client.start, daemon=True).start()
StartSipThread ==
    /\ InMain("sip_thread")
    /\ unit' = [unit EXCEPT !["sip_client"] = "started"]
    /\ startSeq' = Append(startSeq, "sip_client")
    /\ sipThread' = "spawned"
    /\ pc' = MainAfter("sip_thread", FALSE)
    /\ UNCHANGED <<failure, statusThread, exitCode, sipProcess, sipStartCount>>
    /\ EnvUnchanged /\ ConfigUnchanged /\ TeardownUnchanged /\ LoopUnchanged /\ PortsUnchanged

\* main.py 497-510: time.sleep(2); get_recording_manager(config); get_scan_status()
StartRecording ==
    /\ InMain("recording")
    /\ \E raised \in BOOLEAN :
        /\ failure' = FailureOf("recording", IF raised THEN "start" ELSE "ok", failure)
        /\ pc' = MainAfter("recording", raised)
        /\ exitCode' = ExitAfter("recording", raised, exitCode)
    /\ UNCHANGED <<unit, startSeq, statusThread>>
    /\ EnvUnchanged /\ ConfigUnchanged /\ TeardownUnchanged /\ SipUnchanged /\ LoopUnchanged
    /\ PortsUnchanged

\* main.py 512-518: status_thread.start(); the liveness loop is entered
StartStatusThread ==
    /\ InMain("status_thread")
    /\ statusThread' = TRUE
    /\ reachedRunning' = TRUE
    /\ pc' = MainAfter("status_thread", FALSE)
    /\ UNCHANGED <<unit, startSeq, failure, exitCode, loopExit, artifact, exitCodeLogged>>
    /\ EnvUnchanged /\ ConfigUnchanged /\ TeardownUnchanged /\ SipUnchanged /\ PortsUnchanged

\* ---------------------------------------------------------------- liveness loop
\* (variant: only the process handle is checked, not the thread)
LivenessCheckHandleOnly(threadAlive, process) ==
    IF process = "none" THEN "process_none" ELSE "continue"

\* main.py 524-547: the two checks made after each sleep; the reason the loop
\* is left, "continue" when it goes round again.
LivenessCheck(threadAlive, process) ==
    IF ~threadAlive THEN "thread_ended"
    ELSE IF process = "none" THEN "process_none"
    ELSE "continue"

\* main.py 525-537: whether a pass of the checks reaches the exit-code log
\* line: only in the branch entered when the handle is None (530), and there
\* only if the handle is not None (535).
LogsExitCode(threadAlive, process) ==
    threadAlive /\ process = "none" /\ process # "none"

\* sip_thread.is_alive(): from Thread.start() until the target returns
SipThreadAlive == sipThread \in {"spawned", "running"}

\* main.py 521-522: while running: time.sleep(60)
LoopTest ==
    /\ InMain("loop_test")
    /\ IF running
       THEN pc' = "check" /\ UNCHANGED loopExit
       ELSE pc' = "regen" /\ loopExit' = "not_running"
    /\ UNCHANGED <<unit, startSeq, failure, statusThread, exitCode, reachedRunning, artifact,
                   exitCodeLogged>>
    /\ EnvUnchanged /\ ConfigUnchanged /\ TeardownUnchanged /\ SipUnchanged /\ PortsUnchanged

ProcessStates == {"none", "alive", "exited"}

\* What sip_client.process can be when main() reads it: the handle is created
\* by start(), which has not begun while the thread is only spawned.
ObservableProcess == IF sipThread = "spawned" THEN {"none"} ELSE ProcessStates

\* main.py 524-547: one pass of the checks, on the process handle read now
LoopCheck ==
    /\ InMain("check")
    /\ \E process \in ObservableProcess :
        /\ sipProcess' = process
        /\ exitCodeLogged' = (exitCodeLogged \/ LogsExitCode(SipThreadAlive, process))
        /\ LET r == LivenessCheck(SipThreadAlive, process) IN
            IF r = "continue"
            THEN pc' = "loop_test" /\ UNCHANGED loopExit
            ELSE pc' = "regen" /\ loopExit' = r
    /\ UNCHANGED <<unit, startSeq, failure, statusThread, exitCode, reachedRunning, artifact>>
    /\ UNCHANGED <<sipThread, sipStartCount>>
    /\ EnvUnchanged /\ ConfigUnchanged /\ TeardownUnchanged /\ PortsUnchanged

\* main.py 549-560: generate_device_catalog(), catalog_debug.xml; main() returns
RegenerateCatalog ==
    /\ InMain("regen")
    /\ artifact' = (unit["sip_client"] # "none")
    /\ pc' = "exiting"
    /\ exitCode' = 0
    /\ UNCHANGED <<unit, startSeq, failure, statusThread, reachedRunning, loopExit,
                   exitCodeLogged>>
    /\ EnvUnchanged /\ ConfigUnchanged /\ TeardownUnchanged /\ SipUnchanged /\ PortsUnchanged

\* ---------------------------------------------------------------- SIP client thread
\* The body of sip_client.start() on sip_thread, and the process handle it owns.
ThreadsLive == pc # "exited"

MainUnchanged == UNCHANGED <<pc, unit, startSeq, failure, statusThread, exitCode>>

\* sip_client.start() begins executing on the background thread
SipThreadRun ==
    /\ ThreadsLive /\ sipThread = "spawned"
    /\ sipThread' = "running"
    /\ sipStartCount' = sipStartCount + 1
    /\ UNCHANGED sipProcess
    /\ MainUnchanged /\ EnvUnchanged /\ ConfigUnchanged /\ TeardownUnchanged /\ LoopUnchanged
    /\ PortsUnchanged

\* sip_client.start() returns or raises: the thread ends
SipThreadEnd ==
    /\ ThreadsLive /\ sipThread = "running"
    /\ sipThread' = "ended"
    /\ UNCHANGED <<sipProcess, sipStartCount>>
    /\ MainUnchanged /\ EnvUnchanged /\ ConfigUnchanged /\ TeardownUnchanged /\ LoopUnchanged
    /\ PortsUnchanged

\* ---------------------------------------------------------------- cleanup()
\* (variant: the media streamer is shut down first)
CleanupOrderStreamerFirst == <<"streamer", "sip_client", "local_sip", "rtsp", "lsh">>
\* main.py 239-280: the stops cleanup() makes, in program order; "rtsp" is the
\* unconditional cleanup_all_streams() call.
CleanupOrder == <<"sip_client", "local_sip", "rtsp", "lsh", "streamer">>

StopTargets == {CleanupOrder[i] : i \in 1..Len(CleanupOrder)}

\* position of a cleanup() frame: 0 at entry, i before the i-th stop, CleanupEnd
\* at "[SHUTDOWN] Cleanup complete"
CleanupEnd == Len(CleanupOrder) + 1

\* (variant: only a unit whose start() was called successfully is stopped)
StopGuardStartedOnly(u) == IF u = "rtsp" THEN TRUE ELSE unit[u] = "started"

\* `if sip_client:` etc.: the stop is attempted when the global is set
StopGuard(u) == IF u = "rtsp" THEN TRUE ELSE unit[u] # "none"

\* (variant: one try/except around all the stops, so a raise skips the rest)
NextPosSingleTry(pos, raised) == IF raised THEN Len(CleanupOrder) + 1 ELSE pos + 1

\* Each stop sits in its own try/except Exception: a raise is logged and
\* cleanup() goes on with the next statement.
NextPos(pos, raised) == pos + 1

Top == cstack[Len(cstack)]

SetTop(f) == [cstack EXCEPT ![Len(cstack)] = f]

NewFrame(caller) ==
    [inv |-> Len(invStatus) + 1, pos |-> 0, caller |-> caller, raised |-> FALSE]

StartupUnchanged == UNCHANGED <<unit, startSeq, failure, statusThread>>

\* main.py 285-288: a SIGINT/SIGTERM is delivered to the main thread, which
\* enters signal_handler and calls cleanup() on top of whatever it was doing.
Signal ==
    /\ pc \notin {"install", "exiting", "exited"}
    /\ sigCount < MaxSignals
    /\ sigCount' = sigCount + 1
    /\ cstack' = Append(cstack, NewFrame("signal"))
    /\ invStatus' = Append(invStatus, "running")
    /\ UNCHANGED <<pc, exitCode, running, stopLog>>
    /\ StartupUnchanged /\ EnvUnchanged /\ ConfigUnchanged /\ SipUnchanged /\ LoopUnchanged
    /\ PortsUnchanged

\* interpreter shutdown after main() returned or SystemExit left it: the
\* atexit hook registered at main.py 387 calls cleanup()
AtexitStart ==
    /\ InMain("exiting")
    /\ pc' = "atexit"
    /\ cstack' = Append(cstack, NewFrame("atexit"))
    /\ invStatus' = Append(invStatus, "running")
    /\ UNCHANGED <<exitCode, running, stopLog, sigCount>>
    /\ StartupUnchanged /\ EnvUnchanged /\ ConfigUnchanged /\ SipUnchanged /\ LoopUnchanged
    /\ PortsUnchanged

\* (variant: cleanup() flips the flag)
RunningAfterCleanupToggled(flag) == ~flag

\* main.py 237: the value cleanup() assigns to the running flag
RunningAfterCleanup(flag) == FALSE

\* main.py 234-237: running = False
CleanupBegin ==
    /\ cstack # <<>> /\ Top.pos = 0
    /\ running' = RunningAfterCleanup(running)
    /\ cstack' = SetTop([Top EXCEPT !.pos = 1])
    /\ UNCHANGED <<pc, exitCode, invStatus, stopLog, sigCount>>
    /\ StartupUnchanged /\ EnvUnchanged /\ ConfigUnchanged /\ SipUnchanged /\ LoopUnchanged
    /\ PortsUnchanged

\* main.py 239-280: one guarded stop of cleanup()
CleanupStop ==
    /\ cstack # <<>> /\ Top.pos \in 1..Len(CleanupOrder)
    /\ LET u == CleanupOrder[Top.pos] IN
        IF StopGuard(u)
        THEN /\ stopLog' = Append(stopLog, [unit |-> u, inv |-> Top.inv])
             /\ \E raised \in BOOLEAN :
                    cstack' = SetTop([Top EXCEPT !.pos = NextPos(Top.pos, raised),
                                                 !.raised = Top.raised \/ raised])
        ELSE /\ UNCHANGED stopLog
             /\ cstack' = SetTop([Top EXCEPT !.pos = Top.pos + 1])
    /\ UNCHANGED <<pc, exitCode, running, invStatus, sigCount>>
    /\ StartupUnchanged /\ EnvUnchanged /\ ConfigUnchanged /\ SipUnchanged /\ LoopUnchanged
    /\ PortsUnchanged

\* main.py 282 and 289: cleanup() returns. In signal_handler, sys.exit(0)
\* follows: SystemExit is no Exception, so it unwinds every cleanup() frame the
\* handler interrupted; under the atexit hook it ends the hook, elsewhere it
\* leaves main() with status 0.
CleanupReturn ==
    /\ cstack # <<>> /\ Top.pos >= CleanupEnd
    /\ IF Top.caller = "signal"
       THEN /\ invStatus' = [i \in 1..Len(invStatus) |->
                                IF i = Top.inv THEN "complete"
                                ELSE IF invStatus[i] = "running" THEN "aborted"
                                ELSE invStatus[i]]
            /\ cstack' = <<>>
            /\ IF pc = "atexit"
               THEN pc' = "exited" /\ UNCHANGED exitCode
               ELSE pc' = "exiting" /\ exitCode' = 0
       ELSE /\ invStatus' = [invStatus EXCEPT ![Top.inv] = "complete"]
            /\ cstack' = <<>>
            /\ pc' = "exited"
            /\ UNCHANGED exitCode
    /\ UNCHANGED <<running, stopLog, sigCount>>
    /\ StartupUnchanged /\ EnvUnchanged /\ ConfigUnchanged /\ SipUnchanged /\ LoopUnchanged
    /\ PortsUnchanged

\* ---------------------------------------------------------------- the program
\* Configuration files: a missing file has no keys, a file without the sip
\* block has no sip keys.
Configs ==
    {c \in [exists : BOOLEAN, keys : SUBSET TopKeys, sipKeys : SUBSET SipKeys] :
        /\ ~c.exists => c.keys = {}
        /\ "sip" \notin c.keys => c.sipKeys = {}}

ValidConfig == [exists |-> TRUE, keys |-> TopKeys, sipKeys |-> SipKeys]

IdleCall == [start |-> DefaultLocalPort, tries |-> 0, occ |-> {}, ret |-> None, done |-> FALSE]

\* the status thread and run_rtsp_sources outside their own specifications
IdleStatus == [pc |-> "idle"]
IdleRtsp == [pc |-> "idle"]

\* Module-level globals of main.py 80-87 before main() runs.
InitGlobals ==
    /\ pc = "install"
    /\ unit = [u \in Units |-> "none"]
    /\ startSeq = <<>>
    /\ failure = NoFailure
    /\ running = TRUE
    /\ sipThread = "notstarted"
    /\ sipProcess = "unread"
    /\ sipStartCount = 0
    /\ statusThread = FALSE
    /\ reachedRunning = FALSE
    /\ loopExit = "none"
    /\ artifact = FALSE
    /\ exitCode = None
    /\ cstack = <<>>
    /\ invStatus = <<>>
    /\ stopLog = <<>>
    /\ sigCount = 0
    /\ cfgWrites = {}
    /\ portCalls = [s \in {"local_sip", "sip_client"} |-> 0]
    /\ exitCodeLogged = FALSE

\* The optional settings are read only after load_config returned; with a
\* configuration load_config rejects they are left at their defaults.
InitOptions(occChoices, sipPortChoices) ==
    /\ config \in Configs
    /\ rtspSources \in BOOLEAN
    /\ localEnabled \in BOOLEAN
    /\ localPort = DefaultLocalPort
    /\ sipLocalPort \in sipPortChoices
    /\ occupied \in occChoices
    /\ load_config(config) # "ok" =>
          /\ ~rtspSources /\ ~localEnabled /\ sipLocalPort = None /\ occupied = {}

\* The lifecycle specification: every configuration file, with and without
\* live sources and local SIP server, no foreign process on the SIP ports.
Init ==
    /\ InitGlobals
    /\ InitOptions({{}}, {None})
    /\ fp = IdleCall
    /\ st = IdleStatus
    /\ rs = IdleRtsp

Next ==
    \/ Install
    \/ LoadConfig
    \/ QuickScan
    \/ StartStreamer
    \/ RunRtspSources
    \/ ResolveLocalPort
    \/ ResolveSipPort
    \/ ConstructSipClient
    \/ StartLocalSip
    \/ StartSipThread
    \/ StartRecording
    \/ StartStatusThread
    \/ LoopTest
    \/ LoopCheck
    \/ RegenerateCatalog
    \/ SipThreadRun
    \/ SipThreadEnd
    \/ Signal
    \/ AtexitStart
    \/ CleanupBegin
    \/ CleanupStop
    \/ CleanupReturn

Spec == Init /\ [][Next]_vars

\* The lifecycle with progress of the main thread through teardown: every
\* stop()/shutdown() called by cleanup() returns or raises, cleanup() runs to
\* its end, and the interpreter runs the atexit hook once main() is left.
TeardownProgress ==
    /\ WF_vars(CleanupBegin)
    /\ WF_vars(CleanupStop)
    /\ WF_vars(CleanupReturn)
    /\ WF_vars(AtexitStart)

\* runs on a complete configuration file with live sources and the local SIP
\* server enabled, so that main() constructs every unit
InitLive == Init /\ config = ValidConfig /\ rtspSources /\ localEnabled

SpecLive == InitLive /\ [][Next]_vars /\ TeardownProgress

\* ---------------------------------------------------------------- find_available_port alone
\* Calls find_available_port(start, tries) against every set of occupied ports
\* in a window of MaxProbe candidate offsets (odd ports included).
PortWindow(start) == start..(start + PortStep * MaxProbe)

PortCalls ==
    UNION {[start : {start}, tries : 0..MaxTries, occ : SUBSET PortWindow(start),
            ret : {None}, done : {FALSE}] : start \in {DefaultLocalPort, SipBasePort}}

InitPort ==
    /\ InitGlobals
    /\ config = [exists |-> FALSE, keys |-> {}, sipKeys |-> {}]
    /\ rtspSources = FALSE
    /\ localEnabled = FALSE
    /\ localPort = DefaultLocalPort
    /\ sipLocalPort = None
    /\ occupied = {}
    /\ fp \in PortCalls
    /\ st = IdleStatus
    /\ rs = IdleRtsp

\* main.py 292-307: one call of find_available_port
FindPort ==
    /\ ~fp.done
    /\ fp' = [fp EXCEPT !.ret = find_available_port(fp.start, fp.tries, fp.occ),
                        !.done = TRUE]
    /\ UNCHANGED <<config, rtspSources, localEnabled, localPort, sipLocalPort,
                   occupied, pc, unit, startSeq, failure, running, sipThread,
                   sipProcess, sipStartCount, statusThread, reachedRunning,
                   loopExit, artifact, exitCode, cstack, invStatus, stopLog,
                   sigCount, cfgWrites, portCalls, exitCodeLogged, st, rs>>

NextPort == FindPort

SpecPort == InitPort /\ [][NextPort]_vars

\* ---------------------------------------------------------------- startup alone
\* main() from installation to the start of the status thread with no signal
\* delivered, on a host where other processes hold the first k candidate
\* ports of the local SIP server, with sip.local_port configured or absent.
BusyPorts(k) == {DefaultLocalPort + PortStep * i : i \in 0..(k - 1)}

StartupOccupied == {BusyPorts(k) : k \in 0..MaxBusy}

InitStartup ==
    /\ InitGlobals
    /\ InitOptions(StartupOccupied, {None, SipBasePort})
    /\ config = ValidConfig
    /\ fp = IdleCall
    /\ st = IdleStatus
    /\ rs = IdleRtsp

NextStartup ==
    \/ Install
    \/ LoadConfig
    \/ QuickScan
    \/ StartStreamer
    \/ RunRtspSources
    \/ ResolveLocalPort
    \/ ResolveSipPort
    \/ ConstructSipClient
    \/ StartLocalSip
    \/ StartSipThread
    \/ StartRecording
    \/ StartStatusThread

SpecStartup == InitStartup /\ [][NextStartup]_vars

\* ---------------------------------------------------------------- periodic_status_check alone
\* The status thread from its first `while running` test, with the SIP client
\* global set or None, with and without active streams and recording manager.
\* st.late counts the seconds of sleep completed after the running flag was
\* cleared, st.failedScans the cycles whose scan-status read raised.
StatusFrame ==
    UNCHANGED <<config, rtspSources, localEnabled, localPort, sipLocalPort,
                occupied, pc, unit, startSeq, failure, sipThread,
                sipProcess, sipStartCount, statusThread, reachedRunning,
                loopExit, artifact, exitCode, cstack, invStatus, stopLog,
                sigCount, cfgWrites, portCalls, exitCodeLogged, fp, rs>>

StatusThreads ==
    [pc : {"test"}, sip_client : BOOLEAN, active : 0..MaxStreams,
     recording_manager : BOOLEAN, cycle : {0}, reported : {None},
     scanFailed : {FALSE}, failedScans : {0}, k : {0}, late : {0}]

InitStatus ==
    /\ InitGlobals
    /\ InitOptions({{}}, {None})
    /\ config = ValidConfig
    /\ ~rtspSources /\ ~localEnabled
    /\ fp = IdleCall
    /\ rs = IdleRtsp
    /\ st \in StatusThreads

\* seconds of sleep that end after cleanup() cleared the flag
Late(n) == IF running THEN n ELSE n + 1

\* main.py 190-191: `while running:` and entry into the try block
StatusLoopTest ==
    /\ st.pc = "test"
    /\ IF running
       THEN /\ st.cycle < MaxCycles
            /\ st' = [st EXCEPT !.pc = "streams", !.cycle = @ + 1,
                                !.reported = None, !.scanFailed = FALSE]
       ELSE st' = [st EXCEPT !.pc = "done"]
    /\ UNCHANGED running /\ StatusFrame

\* main.py 193-201: the active stream count is logged; the per-stream lines
\* (only with active streams) read keys of each stream record and may raise
StatusStreams ==
    /\ st.pc = "streams"
    /\ IF st.sip_client
       THEN \E raised \in {r \in BOOLEAN : r => st.active > 0} :
              st' = [st EXCEPT !.reported = st.active,
                               !.pc = IF raised THEN "error" ELSE "rtsp"]
       ELSE st' = [st EXCEPT !.pc = "rtsp"]
    /\ UNCHANGED running /\ StatusFrame

\* main.py 204-208: get_rtsp_status() and its log lines
StatusRtsp ==
    /\ st.pc = "rtsp"
    /\ \E raised \in BOOLEAN :
          st' = [st EXCEPT !.pc = IF raised THEN "error" ELSE "recording"]
    /\ UNCHANGED running /\ StatusFrame

\* (variant: the scan-status read has no handler of its own)
AfterScanStatusUncaught(raised) == IF raised THEN "error" ELSE "sleep_test"

\* main.py 212-219: an exception of the scan-status read is caught and logged
\* at debug level; control reaches the sleep loop either way
AfterScanStatus(raised) == "sleep_test"

\* main.py 211-219
StatusRecording ==
    /\ st.pc = "recording"
    /\ IF st.recording_manager
       THEN \E raised \in BOOLEAN :
              st' = [st EXCEPT !.pc = AfterScanStatus(raised), !.k = 0,
                               !.scanFailed = raised,
                               !.failedScans = IF raised THEN @ + 1 ELSE @]
       ELSE st' = [st EXCEPT !.pc = "sleep_test", !.k = 0]
    /\ UNCHANGED running /\ StatusFrame

\* main.py 222-224: `for _ in range(60): if not running: break`
StatusSleepTest ==
    /\ st.pc = "sleep_test"
    /\ st' = [st EXCEPT !.pc = IF st.k = SleepSeconds \/ ~running
                               THEN "test" ELSE "sleeping"]
    /\ UNCHANGED running /\ StatusFrame

\* main.py 225: time.sleep(1) returns
StatusSleepStep ==
    /\ st.pc = "sleeping"
    /\ st' = [st EXCEPT !.pc = "sleep_test", !.k = @ + 1, !.late = Late(@)]
    /\ UNCHANGED running /\ StatusFrame

\* main.py 227-228: the loop's handler logs the error
StatusError ==
    /\ st.pc = "error"
    /\ st' = [st EXCEPT !.pc = "err_sleep", !.k = 0]
    /\ UNCHANGED running /\ StatusFrame

\* main.py 229: one second of time.sleep(60) passes; the call returns after
\* the last one and the loop goes back to its test
StatusErrorSleepStep ==
    /\ st.pc = "err_sleep"
    /\ st' = [st EXCEPT !.k = @ + 1, !.late = Late(@),
                        !.pc = IF st.k + 1 = ErrorSleepSeconds THEN "test" ELSE @]
    /\ UNCHANGED running /\ StatusFrame

\* main.py 237: cleanup() on the main thread clears the flag
StatusStopRequested ==
    /\ running
    /\ st.pc # "done"
    /\ running' = FALSE
    /\ UNCHANGED st /\ StatusFrame

NextStatus ==
    \/ StatusLoopTest
    \/ StatusStreams
    \/ StatusRtsp
    \/ StatusRecording
    \/ StatusSleepTest
    \/ StatusSleepStep
    \/ StatusError
    \/ StatusErrorSleepStep
    \/ StatusStopRequested

SpecStatus == InitStatus /\ [][NextStatus]_vars

\* ---------------------------------------------------------------- run_rtsp_sources alone
\* One call of run_rtsp_sources on every list of up to MaxSources entries.
\* An entry is a string, an object with optional url and enabled flag, or a
\* value of another type; "bad" is a URL urlparse rejects, NoUrl a missing
\* or empty url. rs.probed and rs.prepared list the URLs probed and logged
\* as prepared, rs.bound tells whether the local rtsp_url is assigned.
Urls == {"rtsp://a", "rtsp://b"}

NoUrl == ""

SourceEntries ==
    [kind : {"str"}, url : Urls \cup {"bad", NoUrl}, enabled : {TRUE}]
    \cup [kind : {"dict"}, url : Urls \cup {"bad", NoUrl}, enabled : BOOLEAN]
    \cup [kind : {"other"}, url : {NoUrl}, enabled : {TRUE}]

SourceLists == UNION {[1..n -> SourceEntries] : n \in 0..MaxSources}

RtspCalls ==
    [pc : {"entry"}, entries : SourceLists, i : {1}, bound : {FALSE},
     probed : {<<>>}, prepared : {<<>>}, warned : {{}}, lshFailed : {FALSE}]

RtspFrame ==
    UNCHANGED <<config, rtspSources, localEnabled, localPort, sipLocalPort,
                occupied, pc, unit, startSeq, failure, running, sipThread,
                sipProcess, sipStartCount, statusThread, reachedRunning,
                loopExit, artifact, exitCode, cstack, invStatus, stopLog,
                sigCount, cfgWrites, portCalls, exitCodeLogged, fp, st>>

InitRtsp ==
    /\ InitGlobals
    /\ InitOptions({{}}, {None})
    /\ config = ValidConfig
    /\ ~rtspSources /\ ~localEnabled
    /\ fp = IdleCall
    /\ st = IdleStatus
    /\ rs \in RtspCalls

\* main.py 116-122: an empty list returns at once; otherwise the live stream
\* handler is constructed and started, outside any try block
RtspEnter ==
    /\ rs.pc = "entry"
    /\ IF rs.entries = <<>>
       THEN rs' = [rs EXCEPT !.pc = "returned"]
       ELSE \E raised \in BOOLEAN :
              rs' = [rs EXCEPT !.pc = IF raised THEN "raised" ELSE "loop",
                               !.lshFailed = raised]
    /\ RtspFrame

\* main.py 131-137: the assignments of one iteration before any check;
\* a value that is neither string nor object has no get()
AssignsUrl(e) == e.kind \in {"str", "dict"}

\* main.py 139-145: `continue` for a disabled object and for a missing url
Skipped(e) == (e.kind = "dict" /\ ~e.enabled) \/ e.url = NoUrl

\* main.py 127-173: one iteration of the loop over the entries. result is
\* the outcome of connect_ex: 0, an error number, or an exception.
\* Every entry that passes the checks is probed (156) and logged as prepared
\* (165); the URLs handled earlier are not consulted.
RtspIterate ==
    /\ rs.pc = "loop"
    /\ rs.i <= Len(rs.entries)
    /\ LET e == rs.entries[rs.i]
           next == rs.i + 1
       IN
       \E result \in {"ok", "refused", "raised"} :
          IF ~AssignsUrl(e)
          THEN \* AttributeError; the handler formats rtsp_url (172)
               IF rs.bound
               THEN rs' = [rs EXCEPT !.i = next, !.warned = @ \cup {rs.i}]
               ELSE rs' = [rs EXCEPT !.pc = "raised"]
          ELSE IF Skipped(e)
          THEN rs' = [rs EXCEPT !.i = next, !.bound = TRUE,
                                !.warned = IF e.url = NoUrl /\ (e.kind = "str" \/ e.enabled)
                                           THEN @ \cup {rs.i} ELSE @]
          ELSE IF e.url = "bad"
          THEN \* urlparse or .port raises ValueError, caught at 171
               rs' = [rs EXCEPT !.i = next, !.bound = TRUE, !.warned = @ \cup {rs.i}]
          ELSE IF result = "raised"
          THEN rs' = [rs EXCEPT !.i = next, !.bound = TRUE,
                                !.probed = Append(@, e.url),
                                !.warned = @ \cup {rs.i}]
          ELSE rs' = [rs EXCEPT !.i = next, !.bound = TRUE,
                                !.probed = Append(@, e.url),
                                !.prepared = Append(@, e.url),
                                !.warned = IF result = "refused" THEN @ \cup {rs.i} ELSE @]
    /\ RtspFrame

\* main.py 175: the loop is exhausted, the summary is logged, the call returns
RtspReturn ==
    /\ rs.pc = "loop"
    /\ rs.i = Len(rs.entries) + 1
    /\ rs' = [rs EXCEPT !.pc = "returned"]
    /\ RtspFrame

NextRtsp ==
    \/ RtspEnter
    \/ RtspIterate
    \/ RtspReturn

SpecRtsp == InitRtsp /\ [][NextRtsp]_vars

\* ================================================================ properties
StopEntries(inv) == {i \in 1..Len(stopLog) : stopLog[i].inv = inv}

\* the stops attempted by invocation inv of cleanup()
AttemptedIn(inv) == {stopLog[i].unit : i \in StopEntries(inv)}

\* number of times u's stop()/shutdown() has been called
StopCount(u) == Cardinality({i \in 1..Len(stopLog) : stopLog[i].unit = u})

Started == {startSeq[i] : i \in 1..Len(startSeq)}

StartPos(u) == CHOOSE i \in 1..Len(startSeq) : startSeq[i] = u

\* every stop cleanup() owes at the current state has been attempted by inv
AllAttempted(inv) == \A u \in StopTargets : StopGuard(u) => u \in AttemptedIn(inv)

\* C1: however often cleanup() is invoked, each unit's stop()/shutdown() is
\* called at most once in a run.
C1_EachUnitStoppedOnce == \A u \in Units : StopCount(u) <= 1

\* C2: within one invocation of cleanup(), units are stopped in the reverse of
\* the order main() started them: a stop of A is preceded by the stop of every
\* unit started after A, and never followed by one.
C2_ReverseOrder ==
    \A i \in 1..Len(stopLog) :
        LET a == stopLog[i].unit IN
        a \in Started =>
            /\ \A j \in StopEntries(stopLog[i].inv) :
                 (i < j /\ stopLog[j].unit \in Started)
                     => StartPos(stopLog[j].unit) < StartPos(a)
            /\ \A b \in Started :
                 StartPos(b) > StartPos(a)
                     => \E j \in StopEntries(stopLog[i].inv) :
                            j < i /\ stopLog[j].unit = b

\* C2 witness: all four units were started and one cleanup() stopped them all
C2_Witness ==
    /\ Len(startSeq) = Cardinality(Units)
    /\ \E inv \in 1..Len(invStatus) :
          invStatus[inv] = "complete" /\ Units \subseteq AttemptedIn(inv)

\* C3: a failure of the optional local SIP server (constructor or start()
\* raising) does not end the process before the liveness loop is entered.
C3_LocalSipFailureTolerated ==
    failure[1] = "local_sip" =>
        (pc \notin {"exiting", "atexit", "exited"} \/ reachedRunning)

\* C4: an invocation of cleanup() that reaches "Cleanup complete" has attempted
\* the stop of every constructed unit (and cleanup_all_streams), whichever of
\* the stops raised.
C4_TeardownNeverAborts ==
    /\ \A k \in 1..Len(cstack) :
          cstack[k].pos > Len(CleanupOrder)
              => cstack[k].pos = CleanupEnd /\ AllAttempted(cstack[k].inv)
    /\ \A inv \in 1..Len(invStatus) :
          invStatus[inv] = "complete" => AllAttempted(inv)

\* C4 witness: with all four units constructed, a stop raised and this
\* cleanup() still went through all five stops to its end
C4_Witness ==
    /\ cstack # <<>>
    /\ Top.pos = CleanupEnd
    /\ Top.raised
    /\ \A u \in Units : unit[u] # "none"
    /\ AttemptedIn(Top.inv) = StopTargets

\* C5: a signal delivered while cleanup() is in progress does not enter
\* cleanup() again: at most one cleanup() frame is ever active.
C5_NoReentry == Len(cstack) <= 1

\* C6: when the liveness check finds the SIP thread ended, the loop is left
\* for the catalog regeneration; in a run whose teardown is triggered this way
\* (no signal), catalog_debug.xml is written before any stop() is called, the
\* exit-time cleanup() then attempts every stop and completes, and
\* sip_client.start() is never begun a second time.
C6_ThreadEndStep ==
    (pc = "check" /\ cstack = <<>> /\ sipThread = "ended" /\ pc' # pc)
        => (pc' = "regen" /\ loopExit' = "thread_ended")

C6_ThreadEndState ==
    /\ sipStartCount <= 1
    /\ (loopExit = "thread_ended" /\ sigCount = 0) =>
          /\ stopLog # <<>> => artifact
          /\ pc = "exited" =>
                /\ invStatus = <<"complete">>
                /\ AllAttempted(1)
                /\ exitCode = 0

C7_ExitedProcessDetected ==
    pc = "loop_test" => sipProcess \in {"unread", "alive"}

\* what the specification says of the configuration file: it is missing, or
\* lacks stream_directory, the sip block, or a required sip key
ConfigInvalid ==
    \/ ~config.exists
    \/ ~(TopKeys \subseteq config.keys)
    \/ ~(SipKeys \subseteq config.sipKeys)

\* C8: with an invalid configuration nothing is ever constructed or started,
\* main() never gets past load_config, no unit's stop() is called, and once
\* load_config has raised the exit status is 1.
C8_ConfigErrorFatal ==
    ConfigInvalid =>
        /\ pc \in {"install", "load_config", "exiting", "atexit", "exited"}
        /\ \A u \in Units : unit[u] = "none" /\ StopCount(u) = 0
        /\ sipThread = "notstarted" /\ ~statusThread /\ ~reachedRunning
        /\ (pc \in {"exiting", "atexit", "exited"} /\ sigCount = 0) =>
              (failure[1] = "config" /\ exitCode = 1)
        /\ failure[1] = "config" => exitCode = 1

\* C8 witness: a file that has both top-level keys but lacks a sip key; the
\* process has exited with status 1 after the exit-time cleanup()
C8_Witness ==
    /\ pc = "exited"
    /\ config.exists /\ config.keys = TopKeys /\ config.sipKeys # SipKeys
    /\ failure = <<"config", "ValueError">>
    /\ exitCode = 1
    /\ invStatus = <<"complete">>

\* C9: once MediaStreamer(config) or start_glib_loop() has raised, the SIP
\* client is never constructed, no SIP or status thread is started, the
\* liveness loop is never entered, and the exit status is 1.
C9_StreamerFailureFatal ==
    failure[1] = "streamer" =>
        /\ pc \in {"exiting", "atexit", "exited"}
        /\ unit["sip_client"] = "none"
        /\ sipThread = "notstarted" /\ ~statusThread /\ ~reachedRunning
        /\ exitCode = 1

\* C9 witness: start_glib_loop() raised and the process has exited
C9_Witness ==
    /\ pc = "exited"
    /\ failure = <<"streamer", "start">>
    /\ unit["streamer"] = "constructed"
    /\ exitCode = 1

\* the ports a call may probe: start, start+2, ..., start+2*(tries-1)
Candidates(call) == {call.start + 2 * i : i \in 0..(call.tries - 1)}

\* offsets i in 0..tries-1 whose port start+2*i is free
FreeOffsets(call) == {i \in 0..(call.tries - 1) : (call.start + 2 * i) \notin call.occ}

Least(S) == CHOOSE i \in S : \A j \in S : i <= j

\* C10: find_available_port returns start+2*i for the smallest free candidate
\* offset i, returns None exactly when every candidate is occupied, and the
\* result is the same whatever ports outside the candidates are occupied.
C10_FirstFreeEvenOffset ==
    fp.done =>
        /\ (fp.ret = None) <=> (FreeOffsets(fp) = {})
        /\ FreeOffsets(fp) # {} => fp.ret = fp.start + 2 * Least(FreeOffsets(fp))
        /\ \A other \in SUBSET (PortWindow(fp.start) \ Candidates(fp)) :
              find_available_port(fp.start, fp.tries, (fp.occ \cap Candidates(fp)) \cup other)
                  = fp.ret

\* C10 witness: the first two candidates are occupied, the odd port between
\* the second and third too, and the third candidate is returned
C10_Witness ==
    /\ fp.done
    /\ fp.tries = MaxTries
    /\ {fp.start, fp.start + 2, fp.start + 3} \subseteq fp.occ
    /\ fp.ret = fp.start + 4

\* a call that found every candidate occupied although a port beyond the
\* last candidate and an odd port are free
C10_WitnessNone ==
    /\ fp.done
    /\ fp.tries = 2
    /\ fp.occ = {fp.start, fp.start + 2}
    /\ fp.ret = None

\* C11: when the local SIP server stays enabled and main() resolved the SIP
\* client port itself, the two ports differ.
C11_PortsDistinct ==
    (localEnabled /\ portCalls["sip_client"] = 1 /\ Truthy(sipLocalPort))
        => localPort # sipLocalPort

\* C12: a cycle's recording step always hands over to the sleep loop, also
\* when the scan-status read raised; a cycle whose scan-status read raised is
\* never in the loop's error path and the monitor ends only with the flag
\* cleared; while the flag is set the loop test starts the next cycle; with
\* the SIP client set and no active stream the count 0 is reported and the
\* cycle goes on to its next check.
C12_Step ==
    /\ (st.pc = "recording" /\ st' # st) => st'.pc = "sleep_test"
    /\ (st.pc = "test" /\ running /\ st' # st) =>
           (st'.pc = "streams" /\ st'.cycle = st.cycle + 1)
    /\ (st.pc = "streams" /\ st.sip_client /\ st.active = 0 /\ st' # st) =>
           (st'.reported = 0 /\ st'.pc = "rtsp")

C12_State ==
    /\ st.scanFailed => st.pc \in {"sleep_test", "sleeping", "test", "done"}
    /\ st.pc = "done" => ~running

C12_ScanFailureTolerated == [][C12_Step]_vars /\ []C12_State

C12_Witness ==
    /\ st.failedScans >= 1
    /\ st.cycle = 2
    /\ st.reported = 0
    /\ st.pc = "rtsp"
    /\ running

\* C13: once the running flag is false, periodic_status_check completes at
\* most one more second of sleep before it returns.
C13_WaitCancellable == st.late <= 1

\* C14: no URL is probed twice and none is prepared twice by one call of
\* run_rtsp_sources.
C14_DuplicateUrlDropped ==
    /\ \A i, j \in 1..Len(rs.probed) : i # j => rs.probed[i] # rs.probed[j]
    /\ \A i, j \in 1..Len(rs.prepared) : i # j => rs.prepared[i] # rs.prepared[j]

\* C15: with the live stream handler started, no entry of the list makes
\* run_rtsp_sources raise.
C15_SourceFailureIsolated == rs.pc = "raised" => rs.lshFailed

\* C16: the running flag is true until the first cleanup() and never goes
\* from false back to true, however many invocations of cleanup() run.
C16_Step == ~running => ~running'

C16_State == invStatus = <<>> => running

C16_FlagClearedOnce == [][C16_Step]_vars /\ []C16_State

C16_Witness ==
    /\ ~running
    /\ pc = "atexit"
    /\ sigCount >= 1
    /\ Len(invStatus) >= 2
    /\ cstack # <<>> /\ Top.pos >= 1

\* C17 (as stated): the only configuration keys ever written are the two
\* resolved ports.
C17_OnlyPortsWritten == cfgWrites \subseteq {"local_sip.port", "sip.local_port"}

\* keys main() assigns between load_config and the construction of the SIP client
StartupKeys ==
    {"sample_videos", "pipeline", "local_sip.port", "local_sip.enabled",
     "sip.local_port", "streamer"}

\* C17: a configuration key is written only by a startup statement of main(),
\* before the liveness loop is entered and outside cleanup(), and only the
\* startup keys are written.
C17_Step ==
    cfgWrites' # cfgWrites =>
        /\ ~reachedRunning /\ ~reachedRunning'
        /\ cstack = <<>>
        /\ pc \in {"quick_scan", "port_local", "port_sip", "sip_construct"}

C17_State == cfgWrites \subseteq StartupKeys

C17_WrittenOnlyDuringStartup == [][C17_Step]_vars /\ []C17_State

C17_Witness ==
    /\ pc = "exited"
    /\ reachedRunning
    /\ sigCount >= 1
    /\ cfgWrites = {"sample_videos", "pipeline", "sip.local_port", "streamer"}

\* C18: find_available_port is called only while neither the SIP client nor
\* the local SIP server exists, before the liveness loop and outside
\* cleanup(), and at most once for each server.
C18_Step ==
    portCalls' # portCalls =>
        /\ unit["sip_client"] = "none" /\ unit["local_sip"] = "none"
        /\ sipThread = "notstarted"
        /\ ~reachedRunning
        /\ cstack = <<>>

C18_State == \A s \in DOMAIN portCalls : portCalls[s] <= 1

C18_PortsResolvedOnce == [][C18_Step]_vars /\ []C18_State

C18_Witness ==
    /\ pc = "exited"
    /\ reachedRunning
    /\ unit["local_sip"] # "none"
    /\ portCalls["local_sip"] = 1 /\ portCalls["sip_client"] = 1

\* C19: a run that entered the liveness loop and was ended by a signal while
\* the loop was running has written the catalog artifact when it exits.
C19_SignalShutdownWritesArtifact ==
    (pc = "exited" /\ reachedRunning /\ sigCount >= 1 /\ loopExit = "none")
        => artifact

\* C20: when the loop is left on a failed check and the process handle was
\* available, the exit code has been logged.
C20_ExitCodeLogged ==
    (loopExit \in {"thread_ended", "process_none"} /\ sipProcess \in {"alive", "exited"})
        => exitCodeLogged

\* a signal handler is running on top of main() (not on top of the atexit hook)
SignalledFromMain == cstack # <<>> /\ cstack[1].caller = "signal"

\* the process has ended with status 0 and the stop of every unit whose
\* global was assigned has been attempted
StoppedByCleanup ==
    /\ pc = "exited"
    /\ exitCode = 0
    /\ \A u \in Units : unit[u] # "none" => StopCount(u) >= 1

\* C21: with every stop() returning or raising, a signal delivered to main()
\* during startup or in the liveness loop leads to the process having exited
\* with status 0 after cleanup() attempted the stop of every constructed unit.
C21_SignalLeadsToStopped == SignalledFromMain ~> StoppedByCleanup

C21_Witness ==
    /\ StoppedByCleanup
    /\ sigCount >= 1
    /\ invStatus[1] = "complete"
    /\ unit["streamer"] = "started" /\ unit["sip_client"] = "constructed"

\* C22: cleanup() has called the SIP client's stop() only if the SIP thread
\* was launched, and the local SIP server's stop() only if its start() returned.
C22_OnlyStartedStopped ==
    /\ StopCount("sip_client") >= 1 => sipThread # "notstarted"
    /\ StopCount("local_sip") >= 1 => unit["local_sip"] = "started"

\* C23: sip_client.start() begins executing only while cleanup() has not
\* called sip_client.stop(), and no unit is constructed or started once a
\* cleanup() was invoked.
C23_Step ==
    /\ (sipThread = "spawned" /\ sipThread' = "running") => StopCount("sip_client") = 0
    /\ unit' # unit => invStatus = <<>>

C23_NoStartAfterStop == [][C23_Step]_vars
====
